---- MODULE Spec2Model ----
(***************************************************************************)
(* AlphaPilot comps backend: ticker extraction (regex and LLM), the Yahoo  *)
(* Finance gateway with its process-wide cache, and the /api/analyze       *)
(* handler, the valuation multiples and the /api/chat handler.             *)
(*                                                                         *)
(* A Python str is a sequence of one-character strings; a ticker is such   *)
(* a sequence too.  A dict that is iterated is a sequence of keys (Python  *)
(* dicts keep insertion order) together with a function on those keys.     *)
(***************************************************************************)
EXTENDS Integers, Sequences, FiniteSets, TLC

VARIABLES
    cache,        \* YFinanceService.cache: ticker -> extracted data
    llm_enabled,  \* endpoints.llm_enabled (fixed when the module is imported)
    last,         \* the last request handled: its inputs, what ran, its response
    fin,          \* input handed to a function called on its own
    fout,         \* what that function returned
    inflight      \* the requests being handled side by side: where each one
                  \* stands in the handler, and its local variables

vars == <<cache, llm_enabled, last, fin, fout, inflight>>

-----------------------------------------------------------------------------
(* Characters and the str methods the code uses *)

LowerAlpha ==
    <<"a","b","c","d","e","f","g","h","i","j","k","l","m",
      "n","o","p","q","r","s","t","u","v","w","x","y","z">>

UpperAlpha ==
    <<"A","B","C","D","E","F","G","H","I","J","K","L","M",
      "N","O","P","Q","R","S","T","U","V","W","X","Y","Z">>

Range(s) == {s[i] : i \in 1..Len(s)}

UpperLetters == Range(UpperAlpha)

LowerLetters == Range(LowerAlpha)

DigitChars == {"0","1","2","3","4","5","6","7","8","9"}

\* str.strip() and str.isspace(): ASCII whitespace
WhitespaceChars == {" ", "\t", "\n", "\r", "\f"}

\* c.upper() for one character
UpperChar(c) ==
    IF c \in LowerLetters
    THEN UpperAlpha[CHOOSE i \in 1..Len(LowerAlpha) : LowerAlpha[i] = c]
    ELSE c

\* str.upper()
upper(s) == [i \in 1..Len(s) |-> UpperChar(s[i])]

\* c.lower() for one character
LowerChar(c) ==
    IF c \in UpperLetters
    THEN LowerAlpha[CHOOSE i \in 1..Len(UpperAlpha) : UpperAlpha[i] = c]
    ELSE c

\* str.lower()
lower(s) == [i \in 1..Len(s) |-> LowerChar(s[i])]

\* sub in s, for strings
Contains(s, sub) ==
    \E p \in 1..(Len(s) - Len(sub) + 1) : SubSeq(s, p, p + Len(sub) - 1) = sub

RECURSIVE lstrip(_)
lstrip(s) ==
    IF s # <<>> /\ Head(s) \in WhitespaceChars THEN lstrip(Tail(s)) ELSE s

RECURSIVE rstrip(_)
rstrip(s) ==
    IF s # <<>> /\ s[Len(s)] \in WhitespaceChars
    THEN rstrip(SubSeq(s, 1, Len(s) - 1))
    ELSE s

\* str.strip()
strip(s) == rstrip(lstrip(s))

\* str.isalpha(): non-empty and every character a letter
isalpha(s) == s # <<>> /\ \A i \in 1..Len(s) : s[i] \in UpperLetters \cup LowerLetters

\* the regex class \w
IsWordChar(c) == c \in UpperLetters \cup LowerLetters \cup DigitChars \cup {"_"}

\* the regex assertion \b just before position i (1..Len(s)+1)
WordBoundary(s, i) ==
    (i > 1 /\ IsWordChar(s[i - 1])) # (i <= Len(s) /\ IsWordChar(s[i]))

\* all sequences over S of length at most n
SeqsUpTo(S, n) == UNION {[1..k -> S] : k \in 0..n}

\* seq[:n]
Take(s, n) == SubSeq(s, 1, IF Len(s) < n THEN Len(s) ELSE n)

\* list(dict.fromkeys(seq)): first occurrences, in order
RECURSIVE DedupeFrom(_, _)
DedupeFrom(s, acc) ==
    IF s = <<>> THEN acc
    ELSE DedupeFrom(Tail(s),
                    IF Head(s) \in Range(acc) THEN acc ELSE Append(acc, Head(s)))

Dedupe(s) == DedupeFrom(s, <<>>)

-----------------------------------------------------------------------------
(* YFinanceService.parse_tickers_from_text *)

PatternMinLen == 1

PatternMaxLen == 5

MinTickerLen == 2

MaxTickers == 10

\* MatchLenAt for the pattern without its closing \b
MatchLenAt_NoEndBoundary(s, i) ==
    LET fits(k) == /\ i + k - 1 <= Len(s)
                   /\ \A j \in i..(i + k - 1) : s[j] \in UpperLetters
        ks == {k \in PatternMinLen..PatternMaxLen : fits(k)}
    IN  IF WordBoundary(s, i) /\ ks # {}
        THEN CHOOSE k \in ks : \A m \in ks : m <= k
        ELSE 0

\* the length of the match of \b[A-Z]{1,5}\b that starts at i, 0 if there is none:
\* the quantifier is greedy and backs off until \b holds after the run
MatchLenAt(s, i) ==
    LET fits(k) == /\ i + k - 1 <= Len(s)
                   /\ \A j \in i..(i + k - 1) : s[j] \in UpperLetters
                   /\ WordBoundary(s, i + k)
        ks == {k \in PatternMinLen..PatternMaxLen : fits(k)}
    IN  IF WordBoundary(s, i) /\ ks # {}
        THEN CHOOSE k \in ks : \A m \in ks : m <= k
        ELSE 0

\* re.findall(ticker_pattern, s): non-overlapping matches, scanning left to right
RECURSIVE FindallFrom(_, _, _)
FindallFrom(s, i, acc) ==
    IF i > Len(s) THEN acc
    ELSE LET k == MatchLenAt(s, i)
         IN  IF k > 0
             THEN FindallFrom(s, i + k, Append(acc, SubSeq(s, i, i + k - 1)))
             ELSE FindallFrom(s, i + 1, acc)

findall(s) == FindallFrom(s, 1, <<>>)

exclude_words == {
    <<"A","N","D">>, <<"O","R">>, <<"T","H","E">>, <<"F","O","R">>,
    <<"W","I","T","H">>, <<"F","R","O","M">>, <<"T","O">>, <<"O","F">>,
    <<"I","N">>, <<"O","N">>, <<"A","T">>, <<"B","Y">>, <<"I","S">>,
    <<"A","R","E">>, <<"W","A","S">>, <<"W","E","R","E">>, <<"B","E">>,
    <<"B","E","E","N">>, <<"B","E","I","N","G">>, <<"H","A","V","E">>,
    <<"H","A","S">>, <<"H","A","D">>, <<"D","O">>, <<"D","O","E","S">>,
    <<"D","I","D">>, <<"W","I","L","L">>, <<"W","O","U","L","D">>,
    <<"C","O","U","L","D">>, <<"S","H","O","U","L","D">>, <<"M","A","Y">>,
    <<"M","I","G","H","T">>, <<"C","A","N">>, <<"S","H","A","L","L">>,
    <<"M","U","S","T">>, <<"L","T","M">>, <<"N","T","M">>, <<"E","V">>,
    <<"P","E">>, <<"E","B","I","T","D","A">>, <<"C","O","M","P","S">> }

\* lines 41-44: keep the matches of 2 or more letters that are no stopword
LikelyTicker(t) == Len(t) >= MinTickerLen /\ t \notin exclude_words

\* DedupeAndLimit with the two steps swapped
DedupeAndLimit_LimitFirst(tickers) == Dedupe(Take(tickers, MaxTickers))

\* line 47: remove duplicates, then keep the first 10
DedupeAndLimit(tickers) == Take(Dedupe(tickers), MaxTickers)

parse_tickers_from_text(text) ==
    LET potential_tickers == findall(upper(text))
        tickers == SelectSeq(potential_tickers, LikelyTicker)
    IN  DedupeAndLimit(tickers)

-----------------------------------------------------------------------------
(* OpenAIService.extract_tickers_from_text *)

LLMMaxLen == 5

LLMMaxTickers == 10

\* What the chat-completion call gives back:
\*   "raise"       the call raises (unreachable, timeout, no content)
\*   "not_json"    the content is no JSON: json.loads raises JSONDecodeError
\*   "not_object"  JSON, but no object: result.get raises AttributeError
\*   "no_key"      an object without "tickers": .get gives the default []
\*   "not_list"    "tickers" is null or a number: iterating it raises TypeError
\*   "list"        "tickers" is a list of candidates (a JSON string in its place
\*                 is iterated as the list of its characters)
\* A candidate is a JSON string or null.
ReplyKinds == {"raise", "not_json", "not_object", "no_key", "not_list", "list"}

Reply(kind, cands) == [kind |-> kind, tickers |-> cands]

StrCand(s) == [type |-> "str", s |-> s]

NullCand == [type |-> "null", s |-> <<>>]

\* str(ticker)
py_str(cand) == IF cand.type = "null" THEN <<"N","o","n","e">> ELSE cand.s

\* line 62
CleanCandidate(cand) == strip(upper(py_str(cand)))

\* ValidCandidate without the length check
ValidCandidate_NoLength(t) == t # <<>> /\ isalpha(t)

\* line 63
ValidCandidate(t) == t # <<>> /\ Len(t) <= LLMMaxLen /\ isalpha(t)

\* lines 60-64
RECURSIVE ValidTickers(_)
ValidTickers(cands) ==
    IF cands = <<>> THEN <<>>
    ELSE LET t == CleanCandidate(Head(cands))
         IN  (IF ValidCandidate(t) THEN <<t>> ELSE <<>>) \o ValidTickers(Tail(cands))

\* line 67
LimitTickers(valid_tickers) == Take(valid_tickers, LLMMaxTickers)

\* every failure is caught inside (lines 69-75) and gives []
extract_tickers_from_text(reply) ==
    IF reply.kind = "list" THEN LimitTickers(ValidTickers(reply.tickers)) ELSE <<>>

-----------------------------------------------------------------------------
(* YFinanceService: the gateway and its cache *)

\* Python's None, as a value a provider field can hold
None == -1

MinInfoFields == 5

InfoKeys ==
    {"marketCap", "sharesOutstanding", "totalDebt", "totalCash", "totalRevenue",
     "ebitda", "trailingEps", "forwardEps", "currentPrice", "currency"}

\* stock.info: the keys the code reads that are present, their values, and the
\* number of other keys
Info(keys, val, extra) == [keys |-> keys, val |-> val, extra |-> extra]

\* info.get(key, default)
InfoGet(info, key, default) == IF key \in info.keys THEN info.val[key] ELSE default

\* len(info)
InfoLen(info) == Cardinality(info.keys) + info.extra

\* line 73
BasicValidation(info) == InfoLen(info) > 0 /\ InfoLen(info) > MinInfoFields

_extract_ticker_data(ticker, info) ==
    [ticker            |-> ticker,
     marketCap         |-> InfoGet(info, "marketCap", 0),
     sharesOutstanding |-> InfoGet(info, "sharesOutstanding", 0),
     totalDebt         |-> InfoGet(info, "totalDebt", 0),
     totalCash         |-> InfoGet(info, "totalCash", 0),
     revenue           |-> InfoGet(info, "totalRevenue", 0),
     ebitda            |-> InfoGet(info, "ebitda", 0),
     trailingEps       |-> InfoGet(info, "trailingEps", 0),
     forwardEps        |-> InfoGet(info, "forwardEps", 0),
     currentPrice      |-> InfoGet(info, "currentPrice", 0),
     currency          |-> InfoGet(info, "currency", "USD")]

\* a dict as a function on its keys
EmptyDict == [k \in {} |-> 0]

\* DictPut that keeps no other key
DictPut_OnlyKey(d, key, value) == [k \in {key} |-> value]

DictPut(d, key, value) ==
    [k \in (DOMAIN d) \cup {key} |-> IF k = key THEN value ELSE d[k]]

\* a dict that is iterated later: its keys in insertion order, and its values
EmptyOrderedDict == [keys |-> <<>>, val |-> EmptyDict]

OrderedPut(d, key, value) ==
    [keys |-> IF key \in Range(d.keys) THEN d.keys ELSE Append(d.keys, key),
     val  |-> DictPut(d.val, key, value)]

\* What yf.Ticker(ticker).info does for one call: it raises, or gives an info dict
Raises == [kind |-> "raise", info |-> Info({}, [marketCap |-> 0], 0)]

Gives(info) == [kind |-> "info", info |-> info]

\* lines 54-59: the cached tickers go into the result first
RECURSIVE CheckCache(_, _, _)
CheckCache(c, tickers, acc) ==
    IF tickers = <<>> THEN acc
    ELSE LET ticker == Head(tickers)
         IN  CheckCache(c, Tail(tickers),
                 IF ticker \in DOMAIN c
                 THEN [acc EXCEPT !.stock_data = OrderedPut(@, ticker, c[ticker])]
                 ELSE [acc EXCEPT !.uncached_tickers = Append(@, ticker)])

\* one provider call, as logged: had_entry tells whether the cache held the ticker
\* when the call was made
Call(st, ticker, outcome, stored) ==
    [ticker |-> ticker, outcome |-> outcome, stored |-> stored,
     had_entry |-> ticker \in DOMAIN st.cache]

\* FetchOne without the try/except around the provider call: the exception leaves
\* the loop
FetchOne_NoCatch(st, ticker, outcome) ==
    IF outcome.kind = "raise"
    THEN [st EXCEPT !.raised = TRUE]
    ELSE IF BasicValidation(outcome.info)
    THEN LET data == _extract_ticker_data(ticker, outcome.info)
         IN  [st EXCEPT !.cache = DictPut(@, ticker, data),
                        !.stock_data = OrderedPut(@, ticker, data),
                        !.calls = Append(@, Call(st, ticker, outcome, TRUE))]
    ELSE [st EXCEPT !.calls = Append(@, Call(st, ticker, outcome, FALSE))]

\* lines 66-82: one pass of the loop over uncached_tickers; st holds the cache,
\* stock_data, the log of the provider calls made so far, and whether an exception
\* has left the loop
FetchOne(st, ticker, outcome) ==
    IF outcome.kind = "raise"
    THEN \* except Exception: log and continue
         [st EXCEPT !.calls = Append(@, Call(st, ticker, outcome, FALSE))]
    ELSE IF BasicValidation(outcome.info)
    THEN LET data == _extract_ticker_data(ticker, outcome.info)
         IN  [st EXCEPT !.cache = DictPut(@, ticker, data),
                        !.stock_data = OrderedPut(@, ticker, data),
                        !.calls = Append(@, Call(st, ticker, outcome, TRUE))]
    ELSE \* logger.warning
         [st EXCEPT !.calls = Append(@, Call(st, ticker, outcome, FALSE))]

RECURSIVE FetchLoop(_, _, _, _)
FetchLoop(st, uncached_tickers, outcomes, i) ==
    IF i > Len(uncached_tickers) \/ st.raised THEN st
    ELSE FetchLoop(FetchOne(st, uncached_tickers[i], outcomes[i]),
                   uncached_tickers, outcomes, i + 1)

\* get_stock_data on cache c; outcomes[i] is what the provider does on the i-th call.
\* Gives the returned stock_data, the cache afterwards, the provider calls made and
\* whether the call ended by raising.
get_stock_data(c, tickers, outcomes) ==
    LET checked == CheckCache(c, tickers,
                       [stock_data |-> EmptyOrderedDict, uncached_tickers |-> <<>>])
    IN  FetchLoop([cache |-> c, stock_data |-> checked.stock_data, calls |-> <<>>,
                   raised |-> FALSE],
                  checked.uncached_tickers, outcomes, 1)

\* the number of provider calls get_stock_data makes
NumFetches(c, tickers) == Len(SelectSeq(tickers, LAMBDA t : t \notin DOMAIN c))

-----------------------------------------------------------------------------
(* YFinanceService.calculate_multiples and process_tickers *)

Max(a, b) == IF a >= b THEN a ELSE b

\* The numbers are Python floats.  A float is a whole number of the smallest
\* positive float: the number k stands for k / FloatScale (FloatScale is 2^1074 in
\* the build).  Sums and differences of such numbers are exact.
FloatScale == 4

\* the float of the whole number n
Float(n) == n * FloatScale

\* a * b on floats: the exact product rounded to the nearest float, a tie going to
\* the even one; a product of at most half the smallest float is 0.0
Times(a, b) ==
    LET p == a * b
        q == p \div FloatScale
        r == p % FloatScale
    IN  IF 2 * r > FloatScale \/ (2 * r = FloatScale /\ q % 2 = 1) THEN q + 1 ELSE q

calculate_ev(market_cap, debt, cash) == Max(0, market_cap + debt - cash)

\* a quotient n / d is kept exact, as the pair of its operands; the else branch 0
Quotient(n, d) == [num |-> n, den |-> d]

ZeroRatio == [num |-> 0, den |-> 1]

\* arithmetic or a comparison on None raises TypeError
MultiplesTypeError(data) ==
    \/ None \in {data.marketCap, data.totalDebt, data.totalCash, data.revenue,
                 data.ebitda, data.trailingEps, data.forwardEps}
    \/ /\ data.trailingEps > 0 \/ data.forwardEps > 0
       /\ data.sharesOutstanding = None

\* lines 126-127: the guards look at the two factors, the division is by their
\* product; a quotient whose divisor is 0.0 raises ZeroDivisionError
MultiplesZeroDivision(data) ==
    /\ ~MultiplesTypeError(data)
    /\ data.sharesOutstanding > 0
    /\ \/ data.trailingEps > 0 /\ Times(data.trailingEps, data.sharesOutstanding) = 0
       \/ data.forwardEps > 0 /\ Times(data.forwardEps, data.sharesOutstanding) = 0

\* calculate_multiples raises instead of returning
MultiplesRaise(data) == MultiplesTypeError(data) \/ MultiplesZeroDivision(data)

calculate_multiples(data) ==
    LET ev == calculate_ev(data.marketCap, data.totalDebt, data.totalCash)
    IN  [ev           |-> ev,
         evRevenueLTM |-> IF data.revenue > 0 THEN Quotient(ev, data.revenue) ELSE ZeroRatio,
         evEbitdaLTM  |-> IF data.ebitda > 0 THEN Quotient(ev, data.ebitda) ELSE ZeroRatio,
         evEbitdaNTM  |-> IF data.ebitda > 0 THEN Quotient(ev, data.ebitda) ELSE ZeroRatio,
         peLTM        |-> IF data.trailingEps > 0 /\ data.sharesOutstanding > 0
                          THEN Quotient(data.marketCap,
                                        Times(data.trailingEps, data.sharesOutstanding))
                          ELSE ZeroRatio,
         peNTM        |-> IF data.forwardEps > 0 /\ data.sharesOutstanding > 0
                          THEN Quotient(data.marketCap,
                                        Times(data.forwardEps, data.sharesOutstanding))
                          ELSE ZeroRatio]

\* MetricRow(...) validates its float fields: None is rejected
MetricRowRaises(data) ==
    None \in {data.marketCap, data.sharesOutstanding, data.totalDebt, data.totalCash,
              data.revenue, data.ebitda, data.trailingEps}

MetricRow(ticker, data, multiples) ==
    [ticker            |-> ticker,
     marketCap         |-> data.marketCap,
     sharesOutstanding |-> data.sharesOutstanding,
     debt              |-> data.totalDebt,
     cash              |-> data.totalCash,
     revenue           |-> data.revenue,
     ebitda            |-> data.ebitda,
     eps               |-> data.trailingEps,
     ev                |-> multiples.ev,
     evRevenueLTM      |-> multiples.evRevenueLTM,
     evEbitdaLTM       |-> multiples.evEbitdaLTM,
     evEbitdaNTM       |-> multiples.evEbitdaNTM,
     peLTM             |-> multiples.peLTM,
     peNTM             |-> multiples.peNTM]

\* lines 137-162: one row per item of stock_data, in its iteration order; an item
\* whose row raises is logged and skipped
RECURSIVE MetricRows(_, _)
MetricRows(stock_data, i) ==
    IF i > Len(stock_data.keys) THEN <<>>
    ELSE LET ticker == stock_data.keys[i]
             data == stock_data.val[ticker]
         IN  (IF MultiplesRaise(data) \/ MetricRowRaises(data)
              THEN <<>>
              ELSE <<MetricRow(ticker, data, calculate_multiples(data))>>)
             \o MetricRows(stock_data, i + 1)

\* process_tickers: the rows, with the cache afterwards and the provider calls
process_tickers(c, tickers, outcomes) ==
    LET fetched == get_stock_data(c, tickers, outcomes)
    IN  [metric_rows |-> IF fetched.raised THEN <<>>
                         ELSE MetricRows(fetched.stock_data, 1),
         stock_data  |-> fetched.stock_data,
         cache       |-> fetched.cache,
         calls       |-> fetched.calls,
         raised      |-> fetched.raised]

-----------------------------------------------------------------------------
(* endpoints.analyze_tickers: POST /api/analyze *)

\* IsBlank without the strip()
IsBlank_NoStrip(text) == text = <<>>

\* line 34: not request.text or not request.text.strip()
IsBlank(text) == text = <<>> \/ strip(text) = <<>>

\* ResolveTickers with the method set as soon as the LLM was called
ResolveTickers_MethodSetEarly(enabled, text, reply) ==
    LET llm_called == enabled
        llm_tickers == IF llm_called THEN extract_tickers_from_text(reply) ELSE <<>>
        from_llm == llm_tickers # <<>>
    IN  [llm_called        |-> llm_called,
         llm_tickers       |-> llm_tickers,
         regex_ran         |-> ~from_llm,
         tickers           |-> IF from_llm THEN llm_tickers
                               ELSE parse_tickers_from_text(text),
         extraction_method |-> IF llm_called THEN "LLM" ELSE "regex"]

\* lines 38-63: LLM extraction when the service is there, regex when it gave nothing
ResolveTickers(enabled, text, reply) ==
    LET llm_called == enabled
        llm_tickers == IF llm_called THEN extract_tickers_from_text(reply) ELSE <<>>
        from_llm == llm_tickers # <<>>
    IN  [llm_called        |-> llm_called,
         llm_tickers       |-> llm_tickers,
         regex_ran         |-> ~from_llm,
         tickers           |-> IF from_llm THEN llm_tickers
                               ELSE parse_tickers_from_text(text),
         extraction_method |-> IF from_llm THEN "LLM" ELSE "regex"]

\* how the body of the handler ends: it returns a response or raises
Returns(body) == [exc |-> "none", status |-> 200, value |-> body]

RaisesHTTP(status, detail) == [exc |-> "HTTPException", status |-> status, value |-> detail]

RaisesError == [exc |-> "Exception", status |-> 0, value |-> [kind |-> "error"]]

\* ExceptionBoundary without "except HTTPException: raise"
ExceptionBoundary_Rewraps(ending) ==
    IF ending.exc = "none"
    THEN [status |-> 200, body |-> ending.value]
    ELSE [status |-> 500, body |-> [detail |-> [kind |-> "analysis_failed"]]]

\* lines 90-94: an HTTPException goes out as it is, anything else becomes a 500
ExceptionBoundary(ending) ==
    IF ending.exc = "HTTPException"
    THEN [status |-> ending.status, body |-> [detail |-> ending.value]]
    ELSE IF ending.exc = "none"
    THEN [status |-> 200, body |-> ending.value]
    ELSE [status |-> 500, body |-> [detail |-> [kind |-> "analysis_failed"]]]

MessageTickers(metric_rows) == [i \in 1..Len(metric_rows) |-> metric_rows[i].ticker]

\* AnalysisEnding without the "if not tickers" return
AnalysisEnding_NoEmptyReturn(tickers, extraction_method, metric_rows) ==
    IF metric_rows = <<>>
    THEN RaisesHTTP(429, [kind |-> "yahoo_failed", tickers |-> tickers])
    ELSE Returns([data |-> metric_rows,
                  message |-> [kind |-> "success",
                               count |-> Len(metric_rows),
                               extraction_method |-> extraction_method,
                               tickers |-> MessageTickers(metric_rows)],
                  processed_tickers |-> Len(metric_rows)])

\* lines 65-88: the ending, given the resolved tickers and the rows
AnalysisEnding(tickers, extraction_method, metric_rows) ==
    IF tickers = <<>>
    THEN Returns([data |-> <<>>,
                  message |-> [kind |-> "no_tickers_found"],
                  processed_tickers |-> 0])
    ELSE IF metric_rows = <<>>
    THEN RaisesHTTP(429, [kind |-> "yahoo_failed", tickers |-> tickers])
    ELSE Returns([data |-> metric_rows,
                  message |-> [kind |-> "success",
                               count |-> Len(metric_rows),
                               extraction_method |-> extraction_method,
                               tickers |-> MessageTickers(metric_rows)],
                  processed_tickers |-> Len(metric_rows)])

\* The handler on cache c.  Gives the cache afterwards and the record of the request:
\* its inputs, which collaborators ran, and the response sent.
analyze_tickers(c, enabled, text, reply, outcomes) ==
    LET base == [kind |-> "analyze", text |-> text, reply |-> reply,
                 outcomes |-> outcomes, cache_before |-> c]
    IN  IF IsBlank(text)
        THEN [cache |-> c,
              last  |-> base @@
                  [llm_called |-> FALSE, llm_tickers |-> <<>>, regex_ran |-> FALSE,
                   tickers |-> <<>>, extraction_method |-> "unset",
                   gateway_called |-> FALSE, calls |-> <<>>,
                   stock_keys |-> <<>>,
                   response |-> ExceptionBoundary(
                                    RaisesHTTP(400, [kind |-> "text_required"]))]]
        ELSE LET r == ResolveTickers(enabled, text, reply)
                 called == r.tickers # <<>>
                 p == IF called
                      THEN process_tickers(c, r.tickers, outcomes)
                      ELSE [metric_rows |-> <<>>, stock_data |-> EmptyOrderedDict,
                            cache |-> c, calls |-> <<>>, raised |-> FALSE]
             IN  [cache |-> p.cache,
                  last  |-> base @@
                      [llm_called |-> r.llm_called, llm_tickers |-> r.llm_tickers,
                       regex_ran |-> r.regex_ran,
                       tickers |-> r.tickers,
                       extraction_method |-> r.extraction_method,
                       gateway_called |-> called, calls |-> p.calls,
                       stock_keys |-> p.stock_data.keys,
                       response |-> ExceptionBoundary(
                                        IF p.raised THEN RaisesError
                                        ELSE AnalysisEnding(r.tickers,
                                                            r.extraction_method,
                                                            p.metric_rows))]]

-----------------------------------------------------------------------------
(* OpenAIService.analyze_financial_data and endpoints.chat_about_data: POST /api/chat *)

\* What client.chat.completions.create does for one call: it raises, or gives a
\* completion whose message content is a string or None
CompletionRaises == [kind |-> "raise", content |-> <<>>]

CompletionNoContent == [kind |-> "none_content", content |-> <<>>]

Completion(content) == [kind |-> "content", content |-> content]

\* openai_service.py lines 119-168: the whole body sits in one try; any exception
\* is logged and answered with the string that names the question
analyze_financial_data(question, data_summaries, completion) ==
    IF completion.kind = "content"
    THEN [kind |-> "analysis", content |-> strip(completion.content)]
    ELSE [kind |-> "issue_analyzing", question |-> question]

\* lines 114-117: one summary per row of the context
DataSummary(context) ==
    [i \in 1..Len(context) |->
        [ticker |-> context[i].ticker, marketCap |-> context[i].marketCap,
         peLTM |-> context[i].peLTM, debt |-> context[i].debt,
         cash |-> context[i].cash, revenue |-> context[i].revenue,
         ebitda |-> context[i].ebitda]]

\* lines 109-125: the reply of the LLM branch; left is TRUE when the branch is not
\* taken or an exception leaves its try, so that the code below it runs
ChatLLMBranch(enabled, text, context, completion) ==
    IF enabled
    THEN [left |-> FALSE, called |-> TRUE,
          reply |-> analyze_financial_data(text, DataSummary(context), completion)]
    ELSE [left |-> TRUE, called |-> FALSE, reply |-> [kind |-> "none"]]

\* x goes before the first pair of a greater key
RECURSIVE InsertByKey(_, _)
InsertByKey(pairs, x) ==
    IF pairs = <<>> THEN <<x>>
    ELSE IF x.key < Head(pairs).key THEN <<x>> \o pairs
    ELSE <<Head(pairs)>> \o InsertByKey(Tail(pairs), x)

RECURSIVE SortPairs(_, _)
SortPairs(pairs, acc) ==
    IF pairs = <<>> THEN acc
    ELSE SortPairs(Tail(pairs), InsertByKey(acc, Head(pairs)))

\* sorted(items, key=..., reverse=...): keys[i] is the key of items[i]; the sort is
\* stable, and with reverse=True the items of equal keys keep their order as well
sorted(items, keys, reverse) ==
    LET pairs == [i \in 1..Len(items) |->
                     [key |-> IF reverse THEN 0 - keys[i] ELSE keys[i],
                      item |-> items[i]]]
        s == SortPairs(pairs, <<>>)
    IN  [i \in 1..Len(s) |-> s[i].item]

MarketCapKeyword == <<"m","a","r","k","e","t"," ","c","a","p">>

DebtKeyword == <<"d","e","b","t">>

RevenueKeyword == <<"r","e","v","e","n","u","e">>

PeKeywords == { <<"p","e">>, <<"p","/","e">> }

\* SimpleCategory with the P/E test made first
SimpleCategory_PeFirst(question_lower) ==
    IF \E k \in PeKeywords : Contains(question_lower, k) THEN "pe"
    ELSE IF Contains(question_lower, MarketCapKeyword) THEN "market_cap"
    ELSE IF Contains(question_lower, DebtKeyword) THEN "debt"
    ELSE IF Contains(question_lower, RevenueKeyword) THEN "revenue"
    ELSE "generic"

\* lines 134-156: the if / elif chain over the lowered question
SimpleCategory(question_lower) ==
    IF Contains(question_lower, MarketCapKeyword) THEN "market_cap"
    ELSE IF Contains(question_lower, DebtKeyword) THEN "debt"
    ELSE IF Contains(question_lower, RevenueKeyword) THEN "revenue"
    ELSE IF \E k \in PeKeywords : Contains(question_lower, k) THEN "pe"
    ELSE "generic"

\* lines 135-160: what the branch of the category adds to the response
SimpleBody(category, context) ==
    LET n == Len(context)
    IN  IF category = "market_cap"
        THEN LET sorted_by_cap ==
                     sorted(context, [i \in 1..n |-> context[i].marketCap], TRUE)
                 largest == sorted_by_cap[1]
                 smallest == sorted_by_cap[n]
             IN  << [role |-> "largest", ticker |-> largest.ticker,
                     marketCap |-> largest.marketCap],
                    [role |-> "smallest", ticker |-> smallest.ticker,
                     marketCap |-> smallest.marketCap] >>
        ELSE IF category = "debt"
        THEN [i \in 1..n |-> [ticker |-> context[i].ticker, debt |-> context[i].debt,
                              cash |-> context[i].cash]]
        ELSE IF category = "revenue"
        THEN LET sorted_by_revenue ==
                     sorted(context, [i \in 1..n |-> context[i].revenue], TRUE)
             IN  [i \in 1..n |-> [ticker |-> sorted_by_revenue[i].ticker,
                                  revenue |-> sorted_by_revenue[i].revenue]]
        ELSE IF category = "pe"
        THEN LET with_pe == SelectSeq(context, LAMBDA row : row.peLTM > 0)
                 pe_info == [i \in 1..Len(with_pe) |->
                                [ticker |-> with_pe[i].ticker, pe |-> with_pe[i].peLTM]]
             IN  \* an empty list stands for "P/E ratio data is not available"
                 sorted(pe_info, [i \in 1..Len(pe_info) |-> pe_info[i].pe], FALSE)
        ELSE [i \in 1..n |-> [ticker |-> context[i].ticker,
                              marketCap |-> context[i].marketCap,
                              peLTM |-> context[i].peLTM,
                              revenue |-> context[i].revenue]]

\* lines 128-162: the keyword-based response
SimpleResponse(text, context) ==
    LET companies == [i \in 1..Len(context) |-> context[i].ticker]
        category == SimpleCategory(lower(text))
    IN  [kind |-> "simple", companies |-> companies, category |-> category,
         body |-> SimpleBody(category, context)]

NoDataReply == [kind |-> "no_data_yet"]

\* lines 164-170: an HTTPException goes out as it is, anything else becomes a reply
ChatExceptionBoundary(ending) ==
    IF ending.exc = "HTTPException"
    THEN [status |-> ending.status, body |-> [detail |-> ending.value]]
    ELSE IF ending.exc = "none"
    THEN [status |-> 200, body |-> ending.value]
    ELSE [status |-> 200, body |-> [reply |-> [kind |-> "encountered_error"]]]

\* sorted_by_cap[0] on an empty list raises IndexError
SimpleRaises(text, context) ==
    context = <<>> /\ SimpleCategory(lower(text)) = "market_cap"

\* lines 127-162: the code after the LLM branch
SimpleEnding(text, context) ==
    IF SimpleRaises(text, context) THEN RaisesError
    ELSE Returns([reply |-> SimpleResponse(text, context)])

\* NoContext taken as never true
NoContext_Never(context) == FALSE

\* line 103: not request.context
NoContext(context) == context = <<>>

\* The handler.  Gives the record of the request: its inputs, whether the
\* text-generation call was made, and the response sent.
chat_about_data(enabled, text, context, completion) ==
    LET base == [kind |-> "chat", text |-> text, context |-> context,
                 completion |-> completion]
    IN  IF IsBlank(text)
        THEN base @@
             [llm_called |-> FALSE,
              response |-> ChatExceptionBoundary(
                               RaisesHTTP(400, [kind |-> "question_required"]))]
        ELSE IF NoContext(context)
        THEN base @@
             [llm_called |-> FALSE,
              response |-> ChatExceptionBoundary(Returns([reply |-> NoDataReply]))]
        ELSE LET llm == ChatLLMBranch(enabled, text, context, completion)
             IN  base @@
                 [llm_called |-> llm.called,
                  response |-> ChatExceptionBoundary(
                                   IF llm.left THEN SimpleEnding(text, context)
                                   ELSE Returns([reply |-> llm.reply]))]

-----------------------------------------------------------------------------
(* The requests, LLM replies and provider answers the model draws from *)

AMD == <<"A","M","D">>

NVDA == <<"N","V","D","A">>

\* join words with single spaces
RECURSIVE Join(_)
Join(words) ==
    IF words = <<>> THEN <<>>
    ELSE IF Len(words) = 1 THEN Head(words)
    ELSE Head(words) \o <<" ">> \o Join(Tail(words))

RequestTexts ==
    { <<>>,
      <<" ", "\t">>,
      Join(<< <<"t","h","e">>, <<"E","V">> >>),
      <<"a","m","d">>,
      Join(<<NVDA, AMD>>) }

NoReply == Reply("none", <<>>)

LLMReplies ==
    { Reply("raise", <<>>),
      Reply("not_json", <<>>),
      Reply("not_object", <<>>),
      Reply("list", <<>>),
      Reply("list", <<StrCand(<<"A","M","D","1">>)>>),
      Reply("list", <<StrCand(AMD)>>),
      Reply("list", <<StrCand(AMD), StrCand(AMD)>>),
      Reply("list", <<StrCand(NVDA), StrCand(<<" ","a","m","d">>)>>) }

InfoValues(marketCap) ==
    [marketCap |-> marketCap, sharesOutstanding |-> 100, totalDebt |-> 200,
     totalCash |-> 50, totalRevenue |-> 500, ebitda |-> 100, trailingEps |-> 2,
     forwardEps |-> 5, currentPrice |-> 10, currency |-> "USD"]

FullInfo(marketCap) == Info(InfoKeys, InfoValues(marketCap), 20)

\* fewer than six keys: rejected by the basic validation
SparseInfo == Info({"marketCap", "currency"}, InfoValues(1000), 3)

EmptyInfo == Info({}, InfoValues(0), 0)

ProviderOutcomes ==
    { Raises, Gives(EmptyInfo), Gives(SparseInfo),
      Gives(FullInfo(1000)), Gives(FullInfo(600)), Gives(FullInfo(None)) }

-----------------------------------------------------------------------------
(* The service *)

NoRequest == [kind |-> "none"]

\* no extraction function is being called on its own
Idle == [fn |-> "none", arg |-> <<>>]

NoResult == [returned |-> FALSE, value |-> <<>>]

\* no request is being handled side by side with another
NoRequests == <<>>

Init ==
    /\ cache = EmptyDict
    /\ llm_enabled \in BOOLEAN
    /\ last = NoRequest
    /\ fin = Idle
    /\ fout = NoResult
    /\ inflight = NoRequests

\* one POST /api/analyze, from the request to the response
Analyze ==
    \E text \in RequestTexts :
      \E reply \in (IF llm_enabled /\ ~IsBlank(text) THEN LLMReplies ELSE {NoReply}) :
        LET n == IF IsBlank(text) THEN 0
                 ELSE NumFetches(cache, ResolveTickers(llm_enabled, text, reply).tickers)
        IN  \E outcomes \in [1..n -> ProviderOutcomes] :
              LET h == analyze_tickers(cache, llm_enabled, text, reply, outcomes)
              IN  /\ cache' = h.cache
                  /\ last' = h.last
                  /\ UNCHANGED <<llm_enabled, fin, fout, inflight>>

Next == Analyze

Spec == Init /\ [][Next]_vars

-----------------------------------------------------------------------------
(* Requests to /api/analyze handled side by side on the one cache *)

\* The handler is a coroutine without an await, so the event loop of one process
\* runs the requests one after another.  Here a request may also be overtaken
\* where the handler waits for a collaborator (the LLM, the provider once per
\* ticker): the runs of the event loop are among these runs.

NumRequests == 2

Requests == 1..NumRequests

ConcurrentTexts == { <<"a","m","d">>, Join(<<NVDA, AMD>>) }

\* a second full answer, unlike the first in every field
OtherInfoValues ==
    [marketCap |-> 600, sharesOutstanding |-> 70, totalDebt |-> 30,
     totalCash |-> 900, totalRevenue |-> 40, ebitda |-> 0, trailingEps |-> 0,
     forwardEps |-> 3, currentPrice |-> 8, currency |-> "EUR"]

ConcurrentOutcomes ==
    { Raises, Gives(FullInfo(1000)), Gives(Info(InfoKeys, OtherInfoValues, 20)) }

NoResponse == [status |-> 0, body |-> [kind |-> "none"]]

\* a request that has not come in yet
Waiting ==
    [pc |-> "waiting", tickers |-> <<>>, extraction_method |-> "unset",
     stock_data |-> EmptyOrderedDict, uncached_tickers |-> <<>>, fetched |-> 0,
     calls |-> <<>>, response |-> NoResponse]

\* the OpenAI service is not configured: the tickers come from the regex
InitConcurrent ==
    /\ cache = EmptyDict
    /\ llm_enabled = FALSE
    /\ last = NoRequest
    /\ fin = Idle
    /\ fout = NoResult
    /\ inflight = [r \in Requests |-> Waiting]

\* endpoints.py lines 33-72: the request comes in and its tickers are resolved;
\* with no ticker the handler returns at once
Resolve(r) ==
    /\ inflight[r].pc = "waiting"
    /\ \E text \in ConcurrentTexts :
         \E reply \in (IF llm_enabled THEN LLMReplies ELSE {NoReply}) :
           LET res == ResolveTickers(llm_enabled, text, reply)
           IN  inflight' =
                 [inflight EXCEPT ![r] =
                     IF res.tickers = <<>>
                     THEN [@ EXCEPT !.pc = "done",
                                    !.extraction_method = res.extraction_method,
                                    !.response = ExceptionBoundary(
                                        AnalysisEnding(<<>>, res.extraction_method, <<>>))]
                     ELSE [@ EXCEPT !.pc = "check_cache",
                                    !.tickers = res.tickers,
                                    !.extraction_method = res.extraction_method]]
    /\ UNCHANGED <<cache, llm_enabled, last, fin, fout>>

\* yfinance_service.py lines 51-59: the loop over the tickers that reads the cache
CheckCacheStep(r) ==
    /\ inflight[r].pc = "check_cache"
    /\ LET checked == CheckCache(cache, inflight[r].tickers,
                          [stock_data |-> EmptyOrderedDict, uncached_tickers |-> <<>>])
       IN  inflight' = [inflight EXCEPT ![r] =
                           [@ EXCEPT !.pc = "fetch",
                                     !.stock_data = checked.stock_data,
                                     !.uncached_tickers = checked.uncached_tickers]]
    /\ UNCHANGED <<cache, llm_enabled, last, fin, fout>>

\* yfinance_service.py lines 66-82: one pass of the loop over uncached_tickers, the
\* call of the provider and what is done with its answer
FetchStep(r) ==
    /\ inflight[r].pc = "fetch"
    /\ inflight[r].fetched < Len(inflight[r].uncached_tickers)
    /\ \E outcome \in ConcurrentOutcomes :
         LET st == FetchOne([cache |-> cache, stock_data |-> inflight[r].stock_data,
                             calls |-> inflight[r].calls, raised |-> FALSE],
                            inflight[r].uncached_tickers[inflight[r].fetched + 1],
                            outcome)
         IN  /\ cache' = st.cache
             /\ inflight' = [inflight EXCEPT ![r] =
                                [@ EXCEPT !.stock_data = st.stock_data,
                                          !.calls = st.calls,
                                          !.fetched = @ + 1]]
    /\ UNCHANGED <<llm_enabled, last, fin, fout>>

\* yfinance_service.py lines 134-164 and endpoints.py lines 77-94: the rows are
\* made from stock_data and the response goes out
Respond(r) ==
    /\ inflight[r].pc = "fetch"
    /\ inflight[r].fetched = Len(inflight[r].uncached_tickers)
    /\ inflight' = [inflight EXCEPT ![r] =
                       [@ EXCEPT !.pc = "done",
                                 !.response = ExceptionBoundary(
                                     AnalysisEnding(inflight[r].tickers,
                                                    inflight[r].extraction_method,
                                                    MetricRows(inflight[r].stock_data, 1)))]]
    /\ UNCHANGED <<cache, llm_enabled, last, fin, fout>>

NextConcurrent ==
    \E r \in Requests :
        \/ Resolve(r)
        \/ CheckCacheStep(r)
        \/ FetchStep(r)
        \/ Respond(r)

SpecConcurrent == InitConcurrent /\ [][NextConcurrent]_vars

-----------------------------------------------------------------------------
(* chat_about_data called on its own *)

MaxQuestionWords == 3

MaxRows == 2

QuestionWords ==
    { <<"M","a","r","k","e","t"," ","c","a","p">>, <<"D","E","B","T","?">>,
      <<"r","e","v","e","n","u","e">>, <<"P","/","E">>,
      <<"c","o","m","p","a","r","e">>, <<"h","i">> }

\* the blank questions, every question of up to MaxQuestionWords words, and two
\* that hold the words of "market cap" apart
ChatQuestions ==
    { <<" ", "\n">>,
      <<"c","a","p"," ","m","a","r","k","e","t">>,
      <<"m","a","r","k","e","t","c","a","p">> }
    \cup {Join(ws) : ws \in SeqsUpTo(QuestionWords, MaxQuestionWords)}

\* a row of the context, with the fields the handler reads
ChatRow(ticker, marketCap, debt, cash, revenue, peLTM) ==
    [ticker |-> ticker, marketCap |-> marketCap, debt |-> debt, cash |-> cash,
     revenue |-> revenue, ebitda |-> 10, peLTM |-> peLTM]

ChatRows ==
    { ChatRow(<<"A">>, 100, 5, 1, 10, 0),
      ChatRow(<<"B">>, 50, 0, 2, 30, 12),
      ChatRow(<<"C">>, 50, 7, 0, 30, 7),
      ChatRow(<<"D">>, 70, 1, 1, 0, 0) }

\* every context of up to MaxRows rows, and one of three rows
ChatContexts ==
    SeqsUpTo(ChatRows, MaxRows)
    \cup { << ChatRow(<<"B">>, 50, 0, 2, 30, 12), ChatRow(<<"A">>, 100, 5, 1, 10, 0),
              ChatRow(<<"C">>, 50, 7, 0, 30, 7) >> }

NoCompletion == [kind |-> "none", content |-> <<>>]

ChatCompletions ==
    { CompletionRaises, CompletionNoContent,
      Completion(<<" ","A"," ","l","e","a","d","s",".","\n">>) }

InitChat ==
    /\ cache = EmptyDict
    /\ llm_enabled \in BOOLEAN
    /\ last = NoRequest
    /\ fin \in {[fn |-> "chat_about_data", arg |-> [text |-> text, context |-> context]] :
                    text \in ChatQuestions, context \in ChatContexts}
    /\ fout = NoResult
    /\ inflight = NoRequests

\* one POST /api/chat, from the request to the response; the handler reads
\* llm_enabled and the request, and writes nothing
CallChat ==
    /\ fin.fn = "chat_about_data"
    /\ ~fout.returned
    /\ \E completion \in (IF /\ llm_enabled
                             /\ ~IsBlank(fin.arg.text)
                             /\ ~NoContext(fin.arg.context)
                          THEN ChatCompletions ELSE {NoCompletion}) :
          fout' = [returned |-> TRUE,
                   value |-> chat_about_data(llm_enabled, fin.arg.text,
                                             fin.arg.context, completion)]
    /\ UNCHANGED <<cache, llm_enabled, last, fin, inflight>>

SpecChat == InitChat /\ [][CallChat]_vars

-----------------------------------------------------------------------------
(* Properties of POST /api/analyze, under Spec *)

Handled == last.kind = "analyze"

\* the text is empty or holds whitespace only
BlankText(text) == \A i \in 1..Len(text) : text[i] \in WhitespaceChars

Response == last.response

\* the tickers of the rows sent, in the order sent
RowTickers == [i \in 1..Len(Response.body.data) |-> Response.body.data[i].ticker]

\* the extracted data cannot be made into a row
NoRowFrom(data) == MultiplesRaise(data) \/ MetricRowRaises(data)

\* the provider answered the call with an info dict of more than five keys
GoodAnswer(call) ==
    call.outcome.kind = "info" /\ InfoLen(call.outcome.info) > MinInfoFields

\* C1: a non-blank request resolves the method to "LLM" or "regex".  When the LLM
\* is not configured, raises, answers malformed output or yields an empty list,
\* the tickers are those of parse_tickers_from_text on the text and the method is
\* "regex".  The method is "LLM" only when the LLM call gave a non-empty list, which
\* is then used without running the regex.  A response with rows names the method.
C1_MethodResolved ==
    (Handled /\ ~BlankText(last.text)) =>
        /\ last.extraction_method \in {"LLM", "regex"}
        /\ ( \/ ~llm_enabled
             \/ last.reply.kind \in ReplyKinds \ {"list"}
             \/ last.llm_tickers = <<>> )
           => /\ last.extraction_method = "regex"
              /\ last.regex_ran
              /\ last.tickers = parse_tickers_from_text(last.text)
        /\ last.extraction_method = "LLM"
           => /\ llm_enabled /\ last.llm_called
              /\ last.reply.kind = "list"
              /\ last.llm_tickers # <<>>
              /\ last.tickers = last.llm_tickers
              /\ ~last.regex_ran
        /\ (Response.status = 200 /\ Response.body.data # <<>>)
           => Response.body.message.extraction_method = last.extraction_method

\* the LLM answered no JSON, the regex found tickers, and the rows went out as "regex"
C1_Witness ==
    /\ Handled /\ llm_enabled
    /\ last.reply.kind = "not_json"
    /\ last.tickers = <<NVDA, AMD>>
    /\ Response.status = 200
    /\ Response.body.message.extraction_method = "regex"

\* C2: a request whose text is empty or whitespace only ends in HTTP 400; neither
\* extractor runs, the gateway is not called and the cache stays as it was.
C2_BlankRejected ==
    (Handled /\ BlankText(last.text)) =>
        /\ Response.status = 400
        /\ ~last.llm_called /\ ~last.regex_ran
        /\ ~last.gateway_called /\ last.calls = <<>>
        /\ cache = last.cache_before

\* a whitespace-only text was rejected while the cache held an entry
C2_Witness ==
    /\ Handled /\ last.text # <<>> /\ BlankText(last.text)
    /\ Response.status = 400
    /\ DOMAIN last.cache_before # {}

\* C3: a non-blank request for which extraction, after the fallback, finds no
\* ticker ends in a 200 with no rows, processed_tickers 0 and the "no tickers
\* found" message; the gateway is not called.
C3_NoMatchIsEmptySuccess ==
    (Handled /\ ~BlankText(last.text) /\ last.tickers = <<>>) =>
        /\ Response.status = 200
        /\ Response.body.data = <<>>
        /\ Response.body.processed_tickers = 0
        /\ Response.body.message.kind = "no_tickers_found"
        /\ ~last.gateway_called /\ last.calls = <<>>
        /\ cache = last.cache_before

\* the LLM ran and gave nothing, the regex found nothing either
C3_Witness ==
    /\ Handled /\ ~BlankText(last.text)
    /\ last.llm_called /\ last.regex_ran
    /\ last.tickers = <<>>
    /\ Response.status = 200

\* C4: when tickers were resolved and none of them has data that makes a row, the
\* request ends in HTTP 429 (not 400, not 500, not a 200); a 200 for a non-empty
\* ticker list carries at least one row and processed_tickers counts the rows.
C4_TotalFailureIs429 ==
    (Handled /\ last.tickers # <<>>) =>
        /\ (\A t \in Range(last.tickers) : t \notin DOMAIN cache \/ NoRowFrom(cache[t]))
           => Response.status = 429
        /\ Response.status = 200
           => /\ Len(Response.body.data) >= 1
              /\ Response.body.processed_tickers = Len(Response.body.data)

\* two tickers, one fetch failed and the other gave data that makes no row
C4_Witness ==
    /\ Handled /\ Len(last.tickers) = 2
    /\ Response.status = 429
    /\ \E i \in 1..Len(last.calls) : last.calls[i].stored
    /\ \E i \in 1..Len(last.calls) : ~last.calls[i].stored

\* C5: the tickers of the rows are unique and in the first-seen order of the
\* extracted list, whatever the cache held before.
C5_RowsInExtractorOrder ==
    (Handled /\ Response.status = 200) =>
        /\ \A i, j \in 1..Len(RowTickers) : RowTickers[i] = RowTickers[j] => i = j
        /\ RowTickers = SelectSeq(Dedupe(last.tickers),
                                  LAMBDA t : t \in Range(RowTickers))

\* C6: in a batch, a provider error or a rejected answer for one ticker does not
\* stop the others: the fetch does not raise, and it returns exactly the tickers
\* that were cached or that some call fetched with a good answer.
C6_PerSymbolIsolation ==
    (Handled /\ last.gateway_called) =>
        /\ Response.status # 500
        /\ Len(last.calls) = Len(SelectSeq(last.tickers,
                                           LAMBDA t : t \notin DOMAIN last.cache_before))
        /\ Range(last.stock_keys) =
               {t \in Range(last.tickers) :
                    \/ t \in DOMAIN last.cache_before
                    \/ \E i \in 1..Len(last.calls) :
                           last.calls[i].ticker = t /\ GoodAnswer(last.calls[i])}

\* the first ticker's fetch raised and the second ticker was still fetched
C6_Witness ==
    /\ Handled /\ last.tickers = <<NVDA, AMD>>
    /\ Len(last.calls) = 2
    /\ last.calls[1].outcome.kind = "raise"
    /\ last.calls[2].stored
    /\ last.stock_keys = <<AMD>>

\* C7: a cache entry is created only by a fetch of its ticker with a good answer;
\* failed or rejected fetches leave the cache as it was; an entry, once there, is
\* not removed or overwritten and the provider is not called for its ticker again.
C7_CacheWriteOnce ==
    Handled =>
        /\ \A t \in DOMAIN cache \ DOMAIN last.cache_before :
               \E i \in 1..Len(last.calls) :
                   last.calls[i].ticker = t /\ GoodAnswer(last.calls[i])
        /\ (\A i \in 1..Len(last.calls) : ~GoodAnswer(last.calls[i]))
           => cache = last.cache_before
        /\ \A t \in DOMAIN last.cache_before :
               t \in DOMAIN cache /\ cache[t] = last.cache_before[t]
        /\ \A i \in 1..Len(last.calls) : ~last.calls[i].had_entry

-----------------------------------------------------------------------------
(* The extraction functions called on their own *)

MaxLen == 6

MaxWords == 3

NTok == 12

ParseAlphabet == {"O", "r", "1", " "}

Vocabulary ==
    { NVDA, AMD, <<"T","H","E">>, <<"E","V">>, <<"A","N","D">>, <<"F">>,
      <<"n","v","d","a">>, <<"E","B","I","T","D","A">> }

TokenList ==
    << <<"N","V","D","A">>, <<"A","M","D">>, <<"A","A","P","L">>,
       <<"M","S","F","T">>, <<"G","O","O","G","L">>, <<"T","S","L","A">>,
       <<"I","N","T","C">>, <<"M","E","T","A">>, <<"A","M","Z","N">>,
       <<"N","F","L","X">>, <<"G","M">>, <<"I","B","M">>,
       <<"O","R","C","L">>, <<"C","S","C","O">>, <<"Q","C","O","M">>,
       <<"A","D","B","E">> >>

\* every text of up to MaxLen characters, every text of up to MaxWords words, and
\* texts of up to NTok different tickers after nothing, a repeat, a stopword or a
\* single letter
ParseTexts ==
    SeqsUpTo(ParseAlphabet, MaxLen)
    \cup {Join(ws) : ws \in SeqsUpTo(Vocabulary, MaxWords)}
    \cup {Join(pre \o SubSeq(TokenList, 1, n)) :
              pre \in {<<>>, <<TokenList[1]>>, <<TokenList[2], <<"T","H","E">>>>, <<<<"F">>>>},
              n \in 0..NTok}

InitParse ==
    /\ cache = EmptyDict
    /\ llm_enabled = FALSE
    /\ last = NoRequest
    /\ fin \in {[fn |-> "parse_tickers_from_text", arg |-> text] : text \in ParseTexts}
    /\ fout = NoResult
    /\ inflight = NoRequests

CallParse ==
    /\ fin.fn = "parse_tickers_from_text"
    /\ ~fout.returned
    /\ fout' = [returned |-> TRUE, value |-> parse_tickers_from_text(fin.arg)]
    /\ UNCHANGED <<cache, llm_enabled, last, fin, inflight>>

SpecParse == InitParse /\ [][CallParse]_vars

MaxCands == 3

CandidateVocabulary ==
    { StrCand(AMD), StrCand(<<" ","n","v","d","a","\n">>), StrCand(<<"F">>),
      StrCand(<<"T","H","E">>), StrCand(<<"B","R","K",".","B">>),
      StrCand(<<"G","O","O","G","L","E">>), StrCand(<<" ">>), NullCand }

\* the replies that are no list, every list of up to MaxCands candidates, and lists
\* of up to NTok different tickers
ExtractReplies ==
    {Reply(k, <<>>) : k \in ReplyKinds \ {"list"}}
    \cup {Reply("list", cs) : cs \in SeqsUpTo(CandidateVocabulary, MaxCands)}
    \cup {Reply("list", [i \in 1..n |-> StrCand(TokenList[i])]) : n \in 0..NTok}

InitExtract ==
    /\ cache = EmptyDict
    /\ llm_enabled = TRUE
    /\ last = NoRequest
    /\ fin \in {[fn |-> "extract_tickers_from_text", arg |-> reply] :
                    reply \in ExtractReplies}
    /\ fout = NoResult
    /\ inflight = NoRequests

CallExtract ==
    /\ fin.fn = "extract_tickers_from_text"
    /\ ~fout.returned
    /\ fout' = [returned |-> TRUE, value |-> extract_tickers_from_text(fin.arg)]
    /\ UNCHANGED <<cache, llm_enabled, last, fin, inflight>>

SpecExtract == InitExtract /\ [][CallExtract]_vars

(* calculate_multiples called on its own *)

\* the data of the example: 1000, 200, 50, 500, 100, 2, 2.5 and 100
ExampleData ==
    [marketCap |-> Float(1000), totalDebt |-> Float(200), totalCash |-> Float(50),
     revenue |-> Float(500), ebitda |-> Float(100), trailingEps |-> Float(2),
     forwardEps |-> Float(5) \div 2, sharesOutstanding |-> Float(100)]

\* dicts of non-negative floats: each field 0.0, an everyday value, or (earnings
\* per share and shares) the smallest floats; the cash may exceed cap plus debt
MultiplesInputs ==
    [marketCap         : {0, Float(1000)},
     totalDebt         : {0, Float(200)},
     totalCash         : {0, Float(50), Float(1500)},
     revenue           : {0, Float(500)},
     ebitda            : {0, Float(100)},
     trailingEps       : {0, 1, Float(2)},
     forwardEps        : {0, 1, Float(5) \div 2},
     sharesOutstanding : {0, 1, 2, Float(100)}]

InitMultiples ==
    /\ cache = EmptyDict
    /\ llm_enabled = FALSE
    /\ last = NoRequest
    /\ fin \in {[fn |-> "calculate_multiples", arg |-> data] : data \in MultiplesInputs}
    /\ fout = NoResult
    /\ inflight = NoRequests

\* the call returns the multiples or ends with the exception
CallMultiples ==
    /\ fin.fn = "calculate_multiples"
    /\ fout = NoResult
    /\ fout' = IF MultiplesRaise(fin.arg)
               THEN [returned |-> FALSE, value |-> <<>>, raised |-> TRUE]
               ELSE [returned |-> TRUE, value |-> calculate_multiples(fin.arg),
                     raised |-> FALSE]
    /\ UNCHANGED <<cache, llm_enabled, last, fin, inflight>>

SpecMultiples == InitMultiples /\ [][CallMultiples]_vars

-----------------------------------------------------------------------------
(* Properties of parse_tickers_from_text, under SpecParse *)

ParseReturned == fin.fn = "parse_tickers_from_text" /\ fout.returned

\* text[p .. p+n-1] is a run of letters from the set Letters with no word character
\* on either side
LetterRunAt(text, p, n, Letters) ==
    /\ p >= 1 /\ n >= 1 /\ p + n - 1 <= Len(text)
    /\ \A j \in p..(p + n - 1) : text[j] \in Letters
    /\ p = 1 \/ ~IsWordChar(text[p - 1])
    /\ p + n - 1 = Len(text) \/ ~IsWordChar(text[p + n])

\* token t stands at p in the text, letter case aside
OccursAt(text, t, p) ==
    /\ LetterRunAt(text, p, Len(t), UpperLetters \cup LowerLetters)
    /\ \A k \in 1..Len(t) : UpperChar(text[p + k - 1]) = t[k]

\* the tokens of 2 to 5 letters in the text that are no stopword
Survivors(text) ==
    { t \in { upper(SubSeq(text, pn[1], pn[1] + pn[2] - 1)) :
                  pn \in { q \in (1..Len(text)) \X (2..5) :
                               q[1] + q[2] - 1 <= Len(text) } } :
          /\ t \notin exclude_words
          /\ \E p \in 1..Len(text) : OccursAt(text, t, p) }

FirstPos(text, t) ==
    CHOOSE p \in 1..Len(text) :
        OccursAt(text, t, p) /\ \A q \in 1..(p - 1) : ~OccursAt(text, t, q)

\* C8: the result holds at most 10 tickers, none twice, no stopword and no single
\* letter; it is the surviving tokens in the order of their first occurrence, cut
\* after the tenth ("NVDA AMD NVDA" gives [NVDA, AMD]).
C8_ParseResult ==
    ParseReturned =>
        LET text == fin.arg
            r == fout.value
        IN  /\ Len(r) <= 10
            /\ \A i, j \in 1..Len(r) : r[i] = r[j] => i = j
            /\ \A i \in 1..Len(r) : r[i] \notin exclude_words /\ Len(r[i]) > 1
            /\ \A i \in 1..Len(r) : r[i] \in Survivors(text)
            /\ \A i, j \in 1..Len(r) :
                   i < j => FirstPos(text, r[i]) < FirstPos(text, r[j])
            /\ \A t \in Survivors(text) \ Range(r) :
                   Len(r) = 10 /\ FirstPos(text, t) > FirstPos(text, r[10])
            /\ text = Join(<<NVDA, AMD, NVDA>>) => r = <<NVDA, AMD>>

\* a text with a repeated ticker and twelve different ones was cut to ten
C8_Witness ==
    /\ ParseReturned
    /\ fin.arg = Join(<<TokenList[1]>> \o SubSeq(TokenList, 1, 12))
    /\ fout.value = SubSeq(TokenList, 1, 10)

\* C9 as stated: a text with no uppercase run of 1 to 5 letters gives [].
C9_NoUppercaseRunGivesEmpty ==
    ( /\ ParseReturned
      /\ ~\E p \in 1..Len(fin.arg), n \in 1..5 :
              LetterRunAt(fin.arg, p, n, UpperLetters) )
    => fout.value = <<>>

\* C9 as amended: a text with no run of 1 to 5 letters of either case, standing
\* alone between non-word characters, gives [].
C9_NoLetterRunGivesEmpty ==
    ( /\ ParseReturned
      /\ ~\E p \in 1..Len(fin.arg), n \in 1..5 :
              LetterRunAt(fin.arg, p, n, UpperLetters \cup LowerLetters) )
    => fout.value = <<>>

\* a text whose only letters form a run of more than five gave []
C9_Witness ==
    /\ ParseReturned
    /\ Len(fin.arg) > 5
    /\ \A i \in 1..Len(fin.arg) : fin.arg[i] \in UpperLetters \cup LowerLetters
    /\ fout.value = <<>>

-----------------------------------------------------------------------------
(* Properties of extract_tickers_from_text, under SpecExtract *)

ExtractReturned == fin.fn = "extract_tickers_from_text" /\ fout.returned

-----------------------------------------------------------------------------
(* Properties of calculate_multiples, under SpecMultiples *)

MultiplesCalled == fin.fn = "calculate_multiples" /\ fout # NoResult

\* the ratio q is n / d
IsRatio(q, n, d) == q.den # 0 /\ d # 0 /\ q.num * d = n * q.den

IsZero(q) == q.den # 0 /\ q.num = 0

\* the returned multiples are those of the formulas
ReferenceFormulas(data, m) ==
    LET ev == Max(0, data.marketCap + data.totalDebt - data.totalCash)
        trailing == Times(data.trailingEps, data.sharesOutstanding)
        forward == Times(data.forwardEps, data.sharesOutstanding)
    IN  /\ m.ev = ev /\ m.ev >= 0
        /\ IF data.revenue > 0 THEN IsRatio(m.evRevenueLTM, ev, data.revenue)
                               ELSE IsZero(m.evRevenueLTM)
        /\ IF data.ebitda > 0 THEN IsRatio(m.evEbitdaLTM, ev, data.ebitda)
                              ELSE IsZero(m.evEbitdaLTM)
        /\ m.evEbitdaNTM = m.evEbitdaLTM
        /\ IF data.trailingEps > 0 /\ data.sharesOutstanding > 0
           THEN IsRatio(m.peLTM, data.marketCap, trailing) ELSE IsZero(m.peLTM)
        /\ IF data.forwardEps > 0 /\ data.sharesOutstanding > 0
           THEN IsRatio(m.peNTM, data.marketCap, forward) ELSE IsZero(m.peNTM)
        /\ (\A k \in DOMAIN data : data[k] = 0) =>
               /\ m.ev = 0
               /\ \A k \in DOMAIN m \ {"ev"} : IsZero(m[k])
        /\ data = ExampleData =>
               /\ m.ev = Float(1150)
               /\ IsRatio(m.evRevenueLTM, 23, 10)
               /\ IsRatio(m.evEbitdaLTM, 23, 2)
               /\ IsRatio(m.evEbitdaNTM, 23, 2)
               /\ IsRatio(m.peLTM, 5, 1)
               /\ IsRatio(m.peNTM, 4, 1)

\* C11: for every dict of non-negative numbers calculate_multiples returns, no
\* division by zero happens, and what it returns is that of the formulas:
\* ev = max(0, marketCap + totalDebt - totalCash) >= 0, a ratio is 0 when its
\* divisor is not positive, evEbitdaNTM = evEbitdaLTM, all-zero data give ev = 0
\* and every ratio 0.
C11_TotalAndReference ==
    MultiplesCalled =>
        /\ fout.returned
        /\ ReferenceFormulas(fin.arg, fout.value)

\* whenever calculate_multiples returns, it returns what the formulas say
MultiplesReferenceWhenReturned ==
    (MultiplesCalled /\ fout.returned) => ReferenceFormulas(fin.arg, fout.value)

-----------------------------------------------------------------------------
(* Properties of POST /api/chat, under SpecChat *)

ChatReturned == fin.fn = "chat_about_data" /\ fout.returned

ChatText == fin.arg.text

ChatContext == fin.arg.context

ChatResponse == fout.value.response

\* the response is a 200 that carries this reply
Replies(reply) == ChatResponse.status = 200 /\ ChatResponse.body.reply = reply

\* C12 as stated: with an empty context the reply is the fixed "no data yet" reply
\* for every question text, blank ones included, and the text-generation
\* collaborator is not called.
C12_EmptyContextFixedReply ==
    (ChatReturned /\ ChatContext = <<>>) =>
        /\ Replies(NoDataReply)
        /\ ~fout.value.llm_called

\* C12 as amended: with an empty context every question that is not blank gets the
\* fixed "no data yet" reply and the text-generation collaborator is not called; a
\* blank question is refused with status 400, whatever the context, and the
\* collaborator is not called either.
C12_EmptyContextNonBlankQuestion ==
    ChatReturned =>
        /\ (ChatContext = <<>> /\ ~BlankText(ChatText)) =>
               Replies(NoDataReply) /\ ~fout.value.llm_called
        /\ BlankText(ChatText) =>
               /\ ChatResponse.status = 400
               /\ ChatResponse.body = [detail |-> [kind |-> "question_required"]]
               /\ ~fout.value.llm_called

\* with the LLM service there, a question about market cap on an empty context got
\* the fixed reply
C12_Witness ==
    /\ ChatReturned
    /\ llm_enabled
    /\ ChatContext = <<>>
    /\ Contains(lower(ChatText), MarketCapKeyword)
    /\ Replies(NoDataReply)
    /\ ~fout.value.llm_called

\* C13: with rows in the context and the LLM service there, a text-generation
\* call that fails is answered with the keyword-based reply for the question and
\* the rows, not with a failure or an apology.
C13_FailedCallFallsThrough ==
    ( /\ ChatReturned
      /\ llm_enabled
      /\ ChatContext # <<>>
      /\ fout.value.llm_called
      /\ fout.value.completion = CompletionRaises )
    => Replies(SimpleResponse(ChatText, ChatContext))

\* the lowered text holds the word
Mentions(text, word) ==
    \E p \in 1..(Len(text) - Len(word) + 1) :
        \A k \in 1..Len(word) : LowerChar(text[p + k - 1]) = word[k]

\* the one category the priority order picks for the text
PriorityCategory(text) ==
    CASE Mentions(text, <<"m","a","r","k","e","t"," ","c","a","p">>) -> "market_cap"
      [] /\ ~Mentions(text, <<"m","a","r","k","e","t"," ","c","a","p">>)
         /\ Mentions(text, <<"d","e","b","t">>) -> "debt"
      [] /\ ~Mentions(text, <<"m","a","r","k","e","t"," ","c","a","p">>)
         /\ ~Mentions(text, <<"d","e","b","t">>)
         /\ Mentions(text, <<"r","e","v","e","n","u","e">>) -> "revenue"
      [] /\ ~Mentions(text, <<"m","a","r","k","e","t"," ","c","a","p">>)
         /\ ~Mentions(text, <<"d","e","b","t">>)
         /\ ~Mentions(text, <<"r","e","v","e","n","u","e">>)
         /\ Mentions(text, <<"p","e">>) \/ Mentions(text, <<"p","/","e">>) -> "pe"
      [] OTHER -> "generic"

\* the fields of the items that the reply of a category lists
CategoryFields(category) ==
    CASE category = "market_cap" -> {"role", "ticker", "marketCap"}
      [] category = "debt" -> {"ticker", "debt", "cash"}
      [] category = "revenue" -> {"ticker", "revenue"}
      [] category = "pe" -> {"ticker", "pe"}
      [] OTHER -> {"ticker", "marketCap", "peLTM", "revenue"}

\* C14: on the keyword path the reply is that of exactly one category, the first
\* of "market cap", "debt", "revenue", "pe" or "p/e" that the lowered question
\* holds, and the generic one when it holds none; the market-cap reply names a row
\* of the largest marketCap as largest and a row of the smallest as smallest
\* (rows A: 100 and B: 50 give A as largest and B as smallest).
C14_OneCategoryByPriority ==
    ( /\ ChatReturned
      /\ ~llm_enabled
      /\ ChatContext # <<>>
      /\ ~BlankText(ChatText) )
    => LET reply == ChatResponse.body.reply
           rows == ChatContext
       IN  /\ ChatResponse.status = 200
           /\ reply.kind = "simple"
           /\ reply.category = PriorityCategory(ChatText)
           /\ \A i \in 1..Len(reply.body) :
                  DOMAIN reply.body[i] = CategoryFields(reply.category)
           /\ reply.category = "market_cap" =>
                  /\ Len(reply.body) = 2
                  /\ reply.body[1].role = "largest"
                  /\ reply.body[2].role = "smallest"
                  /\ \E i \in 1..Len(rows) :
                         /\ rows[i].ticker = reply.body[1].ticker
                         /\ rows[i].marketCap = reply.body[1].marketCap
                         /\ \A j \in 1..Len(rows) : rows[j].marketCap <= rows[i].marketCap
                  /\ \E i \in 1..Len(rows) :
                         /\ rows[i].ticker = reply.body[2].ticker
                         /\ rows[i].marketCap = reply.body[2].marketCap
                         /\ \A j \in 1..Len(rows) : rows[j].marketCap >= rows[i].marketCap
                  /\ ( /\ Len(rows) = 2
                       /\ rows[1].ticker = <<"A">> /\ rows[1].marketCap = 100
                       /\ rows[2].ticker = <<"B">> /\ rows[2].marketCap = 50 )
                     => /\ reply.body[1].ticker = <<"A">>
                        /\ reply.body[2].ticker = <<"B">>

\* a question that holds "market cap", "debt" and "p/e" on rows A: 100 and B: 50
\* got the market-cap reply alone, A as largest and B as smallest
C14_Witness ==
    /\ ChatReturned
    /\ ~llm_enabled
    /\ Mentions(ChatText, <<"p","/","e">>)
    /\ Mentions(ChatText, <<"d","e","b","t">>)
    /\ Mentions(ChatText, <<"m","a","r","k","e","t"," ","c","a","p">>)
    /\ Len(ChatContext) = 2
    /\ ChatContext[1].ticker = <<"A">> /\ ChatContext[2].ticker = <<"B">>
    /\ ChatResponse.status = 200
    /\ ChatResponse.body.reply.category = "market_cap"
    /\ ChatResponse.body.reply.body[1].ticker = <<"A">>
    /\ ChatResponse.body.reply.body[2].ticker = <<"B">>

-----------------------------------------------------------------------------
(* Properties of requests handled side by side, under SpecConcurrent *)

\* the provider calls made so far, by any request, whose answer was stored
SuccessfulFetches ==
    { c \in UNION { Range(inflight[r].calls) : r \in Requests } : c.stored }

\* the snapshot a successful fetch produced
SnapshotOf(call) == _extract_ticker_data(call.ticker, call.outcome.info)

SnapshotFields ==
    {"ticker", "marketCap", "sharesOutstanding", "totalDebt", "totalCash", "revenue",
     "ebitda", "trailingEps", "forwardEps", "currentPrice", "currency"}

\* the rows request r has sent
RowsSent(r) ==
    IF inflight[r].pc = "done" /\ inflight[r].response.status = 200
    THEN inflight[r].response.body.data
    ELSE <<>>

\* C15: however the requests overtake each other, every cache entry is the whole
\* snapshot of one successful fetch of its own symbol; a symbol fetched with
\* success stays in the cache; and every row a request sends is made from one
\* such snapshot of a symbol that this request resolved.
C15_DuplicateFetchHarmless ==
    /\ \A t \in DOMAIN cache :
           /\ DOMAIN cache[t] = SnapshotFields
           /\ cache[t].ticker = t
           /\ \E c \in SuccessfulFetches : c.ticker = t /\ cache[t] = SnapshotOf(c)
    /\ \A c \in SuccessfulFetches : c.ticker \in DOMAIN cache
    /\ \A r \in Requests :
           \A i \in 1..Len(RowsSent(r)) :
               LET row == RowsSent(r)[i]
               IN  /\ row.ticker \in Range(inflight[r].tickers)
                   /\ \E c \in SuccessfulFetches :
                          /\ c.ticker = row.ticker
                          /\ ~NoRowFrom(SnapshotOf(c))
                          /\ row = MetricRow(row.ticker, SnapshotOf(c),
                                             calculate_multiples(SnapshotOf(c)))

\* two requests both fetched AMD, the second answer arriving when the cache held
\* the first; each sent its row from its own fetch, and a third symbol fetched by
\* one of them is still cached
C15_Witness ==
    \E r1, r2 \in Requests :
        /\ r1 # r2
        /\ inflight[r1].pc = "done" /\ inflight[r2].pc = "done"
        /\ \E c1 \in Range(inflight[r1].calls), c2 \in Range(inflight[r2].calls) :
               /\ c1.ticker = AMD /\ c2.ticker = AMD
               /\ c1.stored /\ c2.stored
               /\ ~c1.had_entry /\ c2.had_entry
               /\ SnapshotOf(c1) # SnapshotOf(c2)
               /\ cache[AMD] = SnapshotOf(c2)
               /\ \E i \in 1..Len(RowsSent(r1)) :
                      /\ RowsSent(r1)[i].ticker = AMD
                      /\ RowsSent(r1)[i].marketCap = SnapshotOf(c1).marketCap
               /\ \E i \in 1..Len(RowsSent(r2)) :
                      /\ RowsSent(r2)[i].ticker = AMD
                      /\ RowsSent(r2)[i].marketCap = SnapshotOf(c2).marketCap
        /\ NVDA \in DOMAIN cache
        /\ NVDA \notin Range(inflight[r1].tickers) \cap Range(inflight[r2].tickers)

====
